---- MODULE Spec2Model ----
(***************************************************************************)
(* Weather-warning maintenance daemon: the scheduler (app/scheduler.py)    *)
(* and the retention engine (app/remove_data.py) working on the shared     *)
(* SQLAlchemy session of app/db_setting.py.                                *)
(*                                                                         *)
(* Time is an integer number of seconds.  The specifications share the     *)
(* retention engine:                                                       *)
(*   Spec         the daemon process started by main();                    *)
(*   SpecLive     Spec with the progress the interpreter guarantees;       *)
(*   SpecCleanup  run_cleanup(period) called repeatedly, days apart, on    *)
(*                one session, with errors caught at the caller as         *)
(*                cleanup_job does;                                        *)
(*   SpecDaily    SpecCleanup with cleanup_job's period alone.             *)
(***************************************************************************)
EXTENDS Integers, Sequences, FiniteSets, TLC

VARIABLES
    now,          \* datetime.datetime.now(), in seconds
    cityReports,  \* rows of the CityReport table (committed)
    vpww54xmls,   \* rows of the VPWW54xml table (committed)
    files,        \* files of DELETED_DIR
    deleted,      \* session: rows marked by session.delete(), not yet committed
    cpc,          \* position inside run_cleanup
    days,         \* run_cleanup's period argument
    todo,         \* deleteFileBefore: files of the glob still to visit
    matched,      \* delete*Before: result of the query (.all())
    todoRec,      \* delete*Before: matched rows still to visit
    last,         \* outcome of the most recent run_cleanup invocation
    pc,           \* position of main()
    job,          \* the job function being executed
    next_run,     \* schedule: next_run of each registered job
    pending,      \* schedule.run_pending: due jobs still to run in this pass
    calls,        \* number of invocations of each job function
    failed,       \* jobs whose latest invocation ended in the except branch
    dbInit,       \* outcome of initialize_database
    exitCode,     \* process exit status (-1 while running, 1 any non-zero)
    banner        \* "Scheduler stopped by user" was printed

storeVars == <<cityReports, vpww54xmls, files, deleted>>
sweepVars == <<cpc, days, todo, matched, todoRec, last>>
schedVars == <<pc, job, next_run, pending, calls, failed, dbInit, exitCode,
               banner>>
vars == <<now, storeVars, sweepVars, schedVars>>

----------------------------------------------------------------------------
(* Bounds of the model *)

MaxReports == 2      \* CityReport rows in the initial store
MaxXmls == 2         \* VPWW54xml rows in the initial store
MaxFiles == 2        \* *.xml files in the initial directory
MaxDays == 1         \* SpecCleanup: days that may pass
MaxAfter == 3        \* Spec: seconds that may pass after 01:00
MaxJobSeconds == 1   \* Spec: seconds one job may take

(* Program constants *)

DefaultPeriod == 30  \* def run_cleanup(period=30)
JobPeriod == 30      \* cleanup_job: run_cleanup(period=30)
EveryMinutes == 10   \* schedule.every(10).minutes
AtHour == 1          \* schedule.every().day.at("01:00")
SleepSeconds == 1    \* time.sleep(1)

Day == 24 * 60 * 60
Interval == EveryMinutes * 60
AtTime == AtHour * 60 * 60

Tables == {"CityReport", "VPWW54xml"}
Jobs == {"weather_check_job", "cleanup_job"}

----------------------------------------------------------------------------
(* The retention engine: remove_data.py *)

\* datetime.datetime.now() - datetime.timedelta(days=days)
Cutoff(t, d) == t - d * Day

\* glob.glob(os.path.join(DELETED_DIR, "*.xml"))
Glob(fs) == {f.name : f \in {g \in fs : g.ext = "xml"}}

FileNamed(n) == CHOOSE f \in files : f.name = n

\* the comparison written as "not newer than"
IsOldFileInclusive(f, t, d) == f.mtime <= Cutoff(t, d)

\* if (file_dt < target_day): os.remove(file)
IsOldFile(f, t, d) == f.mtime < Cutoff(t, d)

\* the filter without its is_delete condition
FilterAnyFlag(r, t, d) == r.updated_at < Cutoff(t, d)

\* the filter with the comparison written as "not newer than"
FilterInclusive(r, t, d) == r.is_delete = TRUE /\ r.updated_at <= Cutoff(t, d)

\* .filter(X.is_delete == True, X.updated_at < now - timedelta(days=days))
Filter(r, t, d) == r.is_delete = TRUE /\ r.updated_at < Cutoff(t, d)

Rows(tbl) == IF tbl = "CityReport" THEN cityReports ELSE vpww54xmls

\* the query ended by .first() in place of .all()
QueryFirst(tbl, t, d) ==
    LET q == {r.id : r \in {x \in Rows(tbl) : Filter(x, t, d)}}
    IN  IF q = {} THEN {} ELSE {CHOOSE i \in q : TRUE}

\* session.query(X).filter(...).all(): the query reads the committed rows
\* (autoflush = False), rows already marked in the session included
Query(tbl, t, d) == {r.id : r \in {x \in Rows(tbl) : Filter(x, t, d)}}

\* session.commit(): every row marked in the session is removed
Flushed(tbl, rows) == {r \in rows : <<tbl, r.id>> \notin deleted}

NoLast == [ok |-> FALSE, end |-> -1, days |-> 0]

\* the process has not ended
Alive == pc \notin {"aborted", "killed", "stopped"}

\* run_cleanup(period): entry
RunCleanupEnter(period) ==
    /\ Alive
    /\ cpc = "idle"
    /\ cpc' = "glob"
    /\ days' = period
    /\ UNCHANGED <<todo, matched, todoRec, last, storeVars>>

\* deleteFileBefore: files = glob.glob(filepath, recursive=True)
DeleteFileBeforeGlob ==
    /\ Alive
    /\ cpc = "glob"
    /\ todo' = Glob(files)
    /\ cpc' = "files"
    /\ UNCHANGED <<now, days, matched, todoRec, last, storeVars, schedVars>>

\* deleteFileBefore: one iteration of the loop over the files
DeleteFileBeforeStep ==
    /\ Alive
    /\ cpc = "files"
    /\ \E n \in todo :
         /\ todo' = todo \ {n}
         /\ files' = IF IsOldFile(FileNamed(n), now, days)
                     THEN files \ {FileNamed(n)}
                     ELSE files
    /\ UNCHANGED <<now, cityReports, vpww54xmls, deleted, cpc, days,
                   matched, todoRec, last, schedVars>>

\* deleteFileBefore: os.stat / os.remove raises on the file being visited
DeleteFileBeforeRaise ==
    /\ Alive
    /\ cpc = "files"
    /\ todo # {}
    /\ cpc' = "raised"
    /\ UNCHANGED <<now, days, todo, matched, todoRec, last, storeVars, schedVars>>

\* run_cleanup without its call of deleteCityReportBefore
DeleteFileBeforeReturnSkipsCity ==
    /\ Alive
    /\ cpc = "files"
    /\ todo = {}
    /\ cpc' = "xml_query"
    /\ UNCHANGED <<now, days, todo, matched, todoRec, last, storeVars, schedVars>>

\* deleteFileBefore returns; run_cleanup goes on to deleteCityReportBefore
DeleteFileBeforeReturn ==
    /\ Alive
    /\ cpc = "files"
    /\ todo = {}
    /\ cpc' = "cr_query"
    /\ UNCHANGED <<now, days, todo, matched, todoRec, last, storeVars, schedVars>>

\* delete*Before: the query
SweepQuery(tbl, at, to) ==
    /\ Alive
    /\ cpc = at
    /\ matched' = Query(tbl, now, days)
    /\ todoRec' = Query(tbl, now, days)
    /\ cpc' = to
    /\ UNCHANGED <<now, days, todo, last, storeVars, schedVars>>

\* delete*Before: the query raises (store error)
SweepQueryRaise(at) ==
    /\ Alive
    /\ cpc = at
    /\ cpc' = "raised"
    /\ UNCHANGED <<now, days, todo, matched, todoRec, last, storeVars, schedVars>>

\* delete*Before: one iteration, session.delete(row)
SweepDelete(tbl, at) ==
    /\ Alive
    /\ cpc = at
    /\ \E i \in todoRec :
         /\ todoRec' = todoRec \ {i}
         /\ deleted' = deleted \cup {<<tbl, i>>}
    /\ UNCHANGED <<now, cityReports, vpww54xmls, files, cpc, days, todo,
                   matched, last, schedVars>>

\* delete*Before: an iteration raises before its session.delete (the print)
SweepDeleteRaise(at) ==
    /\ Alive
    /\ cpc = at
    /\ todoRec # {}
    /\ cpc' = "raised"
    /\ UNCHANGED <<now, days, todo, matched, todoRec, last, storeVars, schedVars>>

\* delete*Before: session.commit() after the loop
SweepCommit(at, to) ==
    /\ Alive
    /\ cpc = at
    /\ todoRec = {}
    /\ cityReports' = Flushed("CityReport", cityReports)
    /\ vpww54xmls' = Flushed("VPWW54xml", vpww54xmls)
    /\ deleted' = {}
    /\ cpc' = to
    /\ UNCHANGED <<now, files, days, todo, matched, todoRec, last, schedVars>>

DeleteCityReportBeforeQuery == SweepQuery("CityReport", "cr_query", "cr_loop")
DeleteCityReportBeforeQueryRaise == SweepQueryRaise("cr_query")
DeleteCityReportBeforeDelete == SweepDelete("CityReport", "cr_loop")
DeleteCityReportBeforeRaise == SweepDeleteRaise("cr_loop")
DeleteCityReportBeforeCommit == SweepCommit("cr_loop", "xml_query")

DeleteVPWW54xmlBeforeQuery == SweepQuery("VPWW54xml", "xml_query", "xml_loop")
DeleteVPWW54xmlBeforeQueryRaise == SweepQueryRaise("xml_query")
DeleteVPWW54xmlBeforeDelete == SweepDelete("VPWW54xml", "xml_loop")
DeleteVPWW54xmlBeforeRaise == SweepDeleteRaise("xml_loop")
DeleteVPWW54xmlBeforeCommit == SweepCommit("xml_loop", "returned")

\* run_cleanup is left, normally or by the exception: the frame is gone
RunCleanupLeave ==
    /\ Alive
    /\ cpc \in {"returned", "raised"}
    /\ cpc' = "idle"
    /\ last' = [ok |-> cpc = "returned", end |-> now, days |-> days]
    /\ days' = 0
    /\ todo' = {}
    /\ matched' = {}
    /\ todoRec' = {}
    /\ UNCHANGED storeVars

----------------------------------------------------------------------------
(* SpecCleanup: run_cleanup(period) called again and again on one session *)

Periods == {DefaultPeriod, DefaultPeriod + 1}
Now0 == (DefaultPeriod + 1) * Day
Stamps == {0, Day}

\* rows and files are listed oldest first, unflagged before flagged: the
\* sweeps visit them in any order, so a permutation of the ids or names
\* changes nothing
Ordered(n, s) == \A i \in 1..n : \A k \in 1..n : i < k => s[i] <= s[k]

OrderedRows(n, f, s) ==
    /\ Ordered(n, s)
    /\ \A i \in 1..n : \A k \in 1..n :
         (i < k /\ s[i] = s[k]) => (f[i] => f[k])

\* the tables that hold rows 1..n with the given flags and timestamps
TablesOf(n, stamps) ==
    {{[id |-> i, is_delete |-> fs[1][i], updated_at |-> fs[2][i]] : i \in 1..n} :
        fs \in {x \in [1..n -> BOOLEAN] \X [1..n -> stamps] :
                   OrderedRows(n, x[1], x[2])}}

\* the directories that hold n *.xml files and one old file of another kind
DirsOf(n, stamps, old) ==
    {{[name |-> i, ext |-> "xml", mtime |-> s[i]] : i \in 1..n}
        \cup {[name |-> 0, ext |-> "txt", mtime |-> old]} :
        s \in {t \in [1..n -> stamps] : Ordered(n, t)}}

InitSweep ==
    /\ deleted = {}
    /\ cpc = "idle"
    /\ days = 0
    /\ todo = {}
    /\ matched = {}
    /\ todoRec = {}
    /\ last = NoLast

InitNoScheduler ==
    /\ pc = "caller"
    /\ job = "none"
    /\ next_run = [j \in {} |-> 0]
    /\ pending = <<>>
    /\ calls = [j \in Jobs |-> 0]
    /\ failed = {}
    /\ dbInit = "none"
    /\ exitCode = -1
    /\ banner = FALSE

InitCleanup ==
    /\ now = Now0
    /\ cityReports \in TablesOf(MaxReports, Stamps)
    /\ vpww54xmls \in TablesOf(MaxXmls, Stamps)
    /\ files \in DirsOf(MaxFiles, Stamps, 0)
    /\ InitSweep
    /\ InitNoScheduler

\* a caller invokes run_cleanup(period)
CallRunCleanup ==
    /\ pc = "caller"
    /\ \E p \in Periods : RunCleanupEnter(p)
    /\ UNCHANGED <<now, schedVars>>

\* run_cleanup returned or raised into the caller's except branch
RunCleanupDone ==
    /\ pc = "caller"
    /\ RunCleanupLeave
    /\ UNCHANGED <<now, schedVars>>

\* a day passes
ElapseDay ==
    /\ pc = "caller"
    /\ cpc = "idle"
    /\ now + Day <= Now0 + MaxDays * Day
    /\ now' = now + Day
    /\ UNCHANGED <<storeVars, sweepVars, schedVars>>

Sweeps ==
    \/ DeleteFileBeforeGlob
    \/ DeleteFileBeforeStep
    \/ DeleteFileBeforeRaise
    \/ DeleteFileBeforeReturn
    \/ DeleteCityReportBeforeQuery
    \/ DeleteCityReportBeforeQueryRaise
    \/ DeleteCityReportBeforeDelete
    \/ DeleteCityReportBeforeRaise
    \/ DeleteCityReportBeforeCommit
    \/ DeleteVPWW54xmlBeforeQuery
    \/ DeleteVPWW54xmlBeforeQueryRaise
    \/ DeleteVPWW54xmlBeforeDelete
    \/ DeleteVPWW54xmlBeforeRaise
    \/ DeleteVPWW54xmlBeforeCommit

NextCleanup ==
    \/ CallRunCleanup
    \/ RunCleanupDone
    \/ ElapseDay
    \/ Sweeps

SpecCleanup == InitCleanup /\ [][NextCleanup]_vars

(* SpecDaily: cleanup_job's call, run_cleanup(period=30), day after day *)

CallCleanupJob ==
    /\ pc = "caller"
    /\ RunCleanupEnter(JobPeriod)
    /\ UNCHANGED <<now, schedVars>>

NextDaily ==
    \/ CallCleanupJob
    \/ RunCleanupDone
    \/ ElapseDay
    \/ Sweeps

SpecDaily == InitCleanup /\ [][NextDaily]_vars

----------------------------------------------------------------------------
(* Spec: the daemon, scheduler.py *)

\* the process is started ten minutes or a second more before 01:00, just
\* before 01:00, or at 01:00
At0100 == Now0 + AtTime
StartTimes == {At0100 - Interval - 1, At0100 - Interval, At0100 - 2, At0100}
Horizon == At0100 + MaxAfter

\* rows and files that are eligible at 01:00, or one second after it
SchedStamps == {At0100 - JobPeriod * Day - 1, At0100 - JobPeriod * Day}

UniformTable(n, f, s) ==
    {[id |-> i, is_delete |-> f, updated_at |-> s] : i \in 1..n}

UniformDir(n, s) ==
    {[name |-> i, ext |-> "xml", mtime |-> s] : i \in 1..n}
        \cup {[name |-> 0, ext |-> "txt", mtime |-> s]}

Init ==
    /\ now \in StartTimes
    /\ \E f \in BOOLEAN, s \in SchedStamps :
         /\ cityReports = UniformTable(MaxReports, f, s)
         /\ vpww54xmls = UniformTable(MaxXmls, f, s)
         /\ files = UniformDir(MaxFiles, s)
    /\ InitSweep
    /\ pc = "start"
    /\ job = "none"
    /\ next_run = [j \in {} |-> 0]
    /\ pending = <<>>
    /\ calls = [j \in Jobs |-> 0]
    /\ failed = {}
    /\ dbInit = "none"
    /\ exitCode = -1
    /\ banner = FALSE

\* schedule: every().day.at("01:00"): the next 01:00 after t
NextAt(t) ==
    LET today == (t \div Day) * Day + AtTime
    IN  IF today > t THEN today ELSE today + Day

\* every(10) read as ten seconds
ScheduleNextRunSeconds(j, t) ==
    IF j = "weather_check_job" THEN t + EveryMinutes ELSE NextAt(t)

\* schedule: Job._schedule_next_run, called when the job is registered and
\* after each execution
ScheduleNextRun(j, t) ==
    IF j = "weather_check_job" THEN t + Interval ELSE NextAt(t)

\* a job that is run only in the pass of the very second it is due
ShouldRunExact(j, t) == t = next_run[j]

\* schedule: Job.should_run
ShouldRun(j, t) == t >= next_run[j]

\* a pass that runs one due job, the first registered
RunnableOne(t) ==
    IF ShouldRun("weather_check_job", t) THEN <<"weather_check_job">>
    ELSE IF ShouldRun("cleanup_job", t) THEN <<"cleanup_job">>
    ELSE <<>>

\* schedule: sorted(runnable_jobs): by next_run, ties in registration order
Runnable(t) ==
    LET w == "weather_check_job"
        c == "cleanup_job"
    IN  IF ShouldRun(w, t) /\ ShouldRun(c, t)
        THEN IF next_run[c] < next_run[w] THEN <<c, w>> ELSE <<w, c>>
        ELSE IF ShouldRun(w, t) THEN <<w>>
        ELSE IF ShouldRun(c, t) THEN <<c>>
        ELSE <<>>

\* initialize_database without its raise: the failure is printed and main
\* goes on
InitializeDatabaseSwallowed ==
    /\ pc = "start"
    /\ \E ok \in BOOLEAN :
         /\ pc' = "initial"
         /\ dbInit' = IF ok THEN "ok" ELSE "failed"
    /\ UNCHANGED <<now, storeVars, sweepVars, job, next_run, pending, calls,
                   failed, exitCode, banner>>

\* main: initialize_database(); the exception of create_all is re-raised
InitializeDatabase ==
    /\ pc = "start"
    /\ \E ok \in BOOLEAN :
         IF ok
         THEN pc' = "initial" /\ dbInit' = "ok" /\ exitCode' = exitCode
         ELSE pc' = "aborted" /\ dbInit' = "failed" /\ exitCode' = 1
    /\ UNCHANGED <<now, storeVars, sweepVars, job, next_run, pending, calls,
                   failed, banner>>

\* a job function entered while another may be running (a thread per job)
EnterConcurrent(j) ==
    /\ job' = j
    /\ calls' = [calls EXCEPT ![j] = @ + 1]

\* a job function is entered
Enter(j) ==
    /\ job = "none"
    /\ job' = j
    /\ calls' = [calls EXCEPT ![j] = @ + 1]

\* main: the job function has returned to its caller at time t
Resume(j, t) ==
    IF pc = "initial"
    THEN /\ pc' = "schedule"
         /\ UNCHANGED <<next_run, pending>>
    ELSE /\ pc' = pc
         /\ next_run' = [next_run EXCEPT ![j] = ScheduleNextRun(j, t)]
         /\ pending' = Tail(pending)

\* main without its first weather_check_job()
InitialWeatherCheckSkipped ==
    /\ pc = "initial"
    /\ pc' = "schedule"
    /\ UNCHANGED <<now, storeVars, sweepVars, job, next_run, pending, calls,
                   failed, dbInit, exitCode, banner>>

\* main: weather_check_job() before the jobs are registered
InitialWeatherCheck ==
    /\ pc = "initial"
    /\ Enter("weather_check_job")
    /\ UNCHANGED <<now, storeVars, sweepVars, pc, next_run, pending, failed,
                   dbInit, exitCode, banner>>

\* weather_check_job without its try/except: the exception of
\* run_weather_check leaves run_pending and main
WeatherCheckJobEndUncaught ==
    /\ Alive
    /\ job = "weather_check_job"
    /\ \E ok \in BOOLEAN, d \in 0..MaxJobSeconds :
         /\ now + d <= Horizon
         /\ now' = now + d
         /\ IF ok
            THEN /\ failed' = failed \ {job}
                 /\ Resume(job, now + d)
                 /\ exitCode' = exitCode
            ELSE /\ failed' = failed \cup {job}
                 /\ pc' = "killed"
                 /\ exitCode' = 1
                 /\ UNCHANGED <<next_run, pending>>
    /\ job' = "none"
    /\ UNCHANGED <<storeVars, sweepVars, calls, dbInit, banner>>

\* a failed weather check that leaves the job's due time as it was
WeatherCheckJobEndNoReschedule ==
    /\ Alive
    /\ job = "weather_check_job"
    /\ \E ok \in BOOLEAN, d \in 0..MaxJobSeconds :
         /\ now + d <= Horizon
         /\ now' = now + d
         /\ failed' = IF ok THEN failed \ {job} ELSE failed \cup {job}
         /\ IF ok \/ pc = "initial"
            THEN Resume(job, now + d)
            ELSE pc' = pc /\ next_run' = next_run /\ pending' = Tail(pending)
    /\ job' = "none"
    /\ UNCHANGED <<storeVars, sweepVars, calls, dbInit, exitCode, banner>>

\* weather_check_job: run_weather_check() returns or raises after d seconds;
\* the except branch prints and the function returns
WeatherCheckJobEnd ==
    /\ Alive
    /\ job = "weather_check_job"
    /\ \E ok \in BOOLEAN, d \in 0..MaxJobSeconds :
         /\ now + d <= Horizon
         /\ now' = now + d
         /\ failed' = IF ok THEN failed \ {job} ELSE failed \cup {job}
         /\ Resume(job, now + d)
    /\ job' = "none"
    /\ UNCHANGED <<storeVars, sweepVars, calls, dbInit, exitCode, banner>>

\* cleanup_job without its try/except: the exception of run_cleanup leaves
\* run_pending and main
CleanupJobEndUncaught ==
    /\ job = "cleanup_job"
    /\ RunCleanupLeave
    /\ \E d \in 0..MaxJobSeconds :
         /\ now + d <= Horizon
         /\ now' = now + d
         /\ IF cpc = "returned"
            THEN Resume(job, now + d) /\ exitCode' = exitCode
            ELSE pc' = "killed" /\ exitCode' = 1 /\ UNCHANGED <<next_run, pending>>
    /\ failed' = IF cpc = "returned" THEN failed \ {job} ELSE failed \cup {job}
    /\ job' = "none"
    /\ UNCHANGED <<calls, dbInit, banner>>

\* cleanup_job: run_cleanup returned or raised into the except branch
CleanupJobEnd ==
    /\ job = "cleanup_job"
    /\ RunCleanupLeave
    /\ \E d \in 0..MaxJobSeconds :
         /\ now + d <= Horizon
         /\ now' = now + d
         /\ Resume(job, now + d)
    /\ failed' = IF cpc = "returned" THEN failed \ {job} ELSE failed \cup {job}
    /\ job' = "none"
    /\ UNCHANGED <<calls, dbInit, exitCode, banner>>

\* main: schedule.every(10).minutes.do(...), schedule.every().day.at(...).do(...)
RegisterJobs ==
    /\ pc = "schedule"
    /\ next_run' = [j \in Jobs |-> ScheduleNextRun(j, now)]
    /\ pc' = "loop"
    /\ UNCHANGED <<now, storeVars, sweepVars, job, pending, calls, failed,
                   dbInit, exitCode, banner>>

\* schedule.run_pending(): the due jobs are collected
RunPending ==
    /\ pc = "loop"
    /\ pending' = Runnable(now)
    /\ pc' = "run_pending"
    /\ UNCHANGED <<now, storeVars, sweepVars, job, next_run, calls, failed,
                   dbInit, exitCode, banner>>

\* schedule.run_pending(): the next due job is weather_check_job
RunWeatherCheckJob ==
    /\ pc = "run_pending"
    /\ pending # <<>>
    /\ Head(pending) = "weather_check_job"
    /\ Enter("weather_check_job")
    /\ UNCHANGED <<now, storeVars, sweepVars, pc, next_run, pending, failed,
                   dbInit, exitCode, banner>>

\* schedule.run_pending(): the next due job is cleanup_job
RunCleanupJob ==
    /\ pc = "run_pending"
    /\ pending # <<>>
    /\ Head(pending) = "cleanup_job"
    /\ Enter("cleanup_job")
    /\ RunCleanupEnter(JobPeriod)
    /\ UNCHANGED <<now, pc, next_run, pending, failed, dbInit, exitCode, banner>>

\* schedule.run_pending() returns
RunPendingReturn ==
    /\ pc = "run_pending"
    /\ job = "none"
    /\ pending = <<>>
    /\ pc' = "sleep"
    /\ UNCHANGED <<now, storeVars, sweepVars, job, next_run, pending, calls,
                   failed, dbInit, exitCode, banner>>

\* time.sleep(1)
Sleep ==
    /\ pc = "sleep"
    /\ now + SleepSeconds <= Horizon
    /\ now' = now + SleepSeconds
    /\ pc' = "loop"
    /\ UNCHANGED <<storeVars, sweepVars, job, next_run, pending, calls,
                   failed, dbInit, exitCode, banner>>

\* SIGINT: KeyboardInterrupt is raised where the process is; except Exception
\* does not catch it, and main catches it around the loop alone
Interrupt ==
    /\ Alive
    /\ IF pc \in {"loop", "run_pending", "sleep"}
       THEN pc' = "stopped" /\ banner' = TRUE /\ exitCode' = 0
       ELSE pc' = "killed" /\ banner' = banner /\ exitCode' = 1
    /\ UNCHANGED <<now, storeVars, sweepVars, job, next_run, pending, calls,
                   failed, dbInit>>

Next ==
    \/ InitializeDatabase
    \/ InitialWeatherCheck
    \/ WeatherCheckJobEnd
    \/ RegisterJobs
    \/ RunPending
    \/ RunWeatherCheckJob
    \/ RunCleanupJob
    \/ CleanupJobEnd
    \/ RunPendingReturn
    \/ Sleep
    \/ Interrupt
    \/ Sweeps

Spec == Init /\ [][Next]_vars

\* the steps of the interpreter: everything but the signal
Progress ==
    \/ InitializeDatabase
    \/ InitialWeatherCheck
    \/ WeatherCheckJobEnd
    \/ RegisterJobs
    \/ RunPending
    \/ RunWeatherCheckJob
    \/ RunCleanupJob
    \/ CleanupJobEnd
    \/ RunPendingReturn
    \/ Sleep
    \/ Sweeps

\* SpecLive: the interpreter goes on executing main while it can: the loop
\* while True has no blocking call but time.sleep(1), and every job returns
SpecLive == Init /\ [][Next]_vars /\ WF_vars(Progress)

----------------------------------------------------------------------------
(* Properties of the retention engine *)

\* the step is the session.commit() of the sweep of table tbl
IsCommit(tbl) ==
    IF tbl = "CityReport"
    THEN cpc = "cr_loop" /\ cpc' = "xml_query"
    ELSE cpc = "xml_loop" /\ cpc' = "returned"

Age(stamp) == now - stamp

\* C1: a CityReport or VPWW54xml row whose is_delete is false is never
\* removed: whatever its age, whatever the periods of the invocations of
\* run_cleanup, and whether they return or raise, a row that is in its table
\* stays in it.
C1_UnflaggedKept ==
    [][/\ \A r \in cityReports : r.is_delete = FALSE => r \in cityReports'
       /\ \A r \in vpww54xmls : r.is_delete = FALSE => r \in vpww54xmls']_vars

\* C1 witness: run_cleanup has returned normally, has removed a row of each
\* table, and rows older than the period with is_delete false are still there.
C1_Witness ==
    /\ cpc = "returned"
    /\ Cardinality(cityReports) < MaxReports
    /\ Cardinality(vpww54xmls) < MaxXmls
    /\ \E r \in cityReports : ~r.is_delete /\ Age(r.updated_at) > days * Day
    /\ \E r \in vpww54xmls : ~r.is_delete /\ Age(r.updated_at) > days * Day

\* the row is marked in the session and this sweep's query did not return it:
\* the mark was left by an earlier sweep that raised before its commit
StaleMark(tbl, i) == <<tbl, i>> \in deleted /\ i \notin matched

\* C2 as claimed: at the commit of a record sweep run with period P, a row
\* with is_delete true survives if and only if now - updated_at < P.
C2_SurvivesIffYounger ==
    [][\A tbl \in Tables : IsCommit(tbl) =>
          \A r \in Rows(tbl) : r.is_delete =>
              (r \in Rows(tbl)' <=> Age(r.updated_at) < days * Day)]_vars

\* C2 amended: at the commit of a record sweep run with period P, a row with
\* is_delete true survives if and only if now - updated_at <= P and the row
\* was not left marked in the session by an earlier sweep that raised.
C2_SurvivesIffNotOlder ==
    [][\A tbl \in Tables : IsCommit(tbl) =>
          \A r \in Rows(tbl) : r.is_delete =>
              (r \in Rows(tbl)' <=>
                  /\ Age(r.updated_at) <= days * Day
                  /\ ~StaleMark(tbl, r.id))]_vars

\* C2 witness: the CityReport sweep has committed; a flagged row exactly P old
\* is still in the table and a flagged older row is gone.
C2_Witness ==
    /\ cpc = "xml_query"
    /\ Cardinality(cityReports) < MaxReports
    /\ \E r \in cityReports : r.is_delete /\ Age(r.updated_at) = days * Day

\* the file sweep visits the file named n in this step
Visits(n) == cpc = "files" /\ n \in todo /\ n \notin todo'

\* C3 as claimed: a *.xml file of the directory visited by the file sweep run
\* with period P survives if and only if now - mtime < P.
C3_FileSurvivesIffYounger ==
    [][\A f \in files : Visits(f.name) =>
          (f \in files' <=> Age(f.mtime) < days * Day)]_vars

\* C3 amended: a *.xml file visited by the file sweep run with period P
\* survives if and only if now - mtime <= P; a file the sweep does not visit
\* (not matching *.xml, or behind the file on which the sweep raised) stays.
C3_FileSurvivesIffNotOlder ==
    [][\A f \in files :
          IF Visits(f.name)
          THEN f \in files' <=> Age(f.mtime) <= days * Day
          ELSE f \in files']_vars

\* C3 witness: the file sweep has visited every file; a file exactly P old is
\* still there and an older one is gone.
C3_Witness ==
    /\ cpc = "files"
    /\ todo = {}
    /\ Cardinality(files) <= MaxFiles
    /\ \E f \in files : f.ext = "xml" /\ Age(f.mtime) = days * Day

\* C4 as claimed: rows marked by a sweep that raised before its commit are
\* not removed, then or later: the commit of a sweep removes only rows that
\* this sweep matched, all of its own table.
C4_SweepAtomicity ==
    [][\A tbl \in Tables : IsCommit(tbl) =>
          /\ \A r \in Rows(tbl) \ Rows(tbl)' : r.id \in matched
          /\ \A other \in Tables \ {tbl} : Rows(other)' = Rows(other)]_vars

\* C5: while run_cleanup(period) runs right after a run_cleanup(period) that
\* returned normally, with no time passed in between, no row and no file is
\* removed.
C5_SecondRunRemovesNothing ==
    [][(/\ cpc # "idle"
        /\ last.ok
        /\ last.end = now
        /\ last.days = days)
       => /\ cityReports' = cityReports
          /\ vpww54xmls' = vpww54xmls
          /\ files' = files]_vars

\* C5 witness: the second of two such runs has returned, and the first had
\* removed rows of both tables and a file.
C5_Witness ==
    /\ cpc = "returned"
    /\ last.ok
    /\ last.end = now
    /\ last.days = days
    /\ Cardinality(cityReports) < MaxReports
    /\ Cardinality(vpww54xmls) < MaxXmls
    /\ Cardinality(files) <= MaxFiles

----------------------------------------------------------------------------
(* Properties of the scheduler *)

NoCalls == [j \in Jobs |-> 0]
InLoop == pc \in {"loop", "run_pending", "sleep"}

\* C6: the weather check is invoked once, right after the database is
\* initialized and before any job is registered: nothing is invoked before it,
\* and when it is over, with or without an error, main is about to register
\* the jobs with one weather check and no cleanup invoked.
C6_InitialCheckOnce ==
    /\ (pc = "start" \/ (pc = "initial" /\ job = "none")) => calls = NoCalls
    /\ (pc = "initial" /\ job # "none") =>
           /\ job = "weather_check_job"
           /\ calls = [NoCalls EXCEPT !["weather_check_job"] = 1]
           /\ DOMAIN next_run = {}
    /\ pc = "schedule" =>
           /\ dbInit = "ok"
           /\ job = "none"
           /\ calls = [NoCalls EXCEPT !["weather_check_job"] = 1]
           /\ DOMAIN next_run = {}
    /\ InLoop => calls["weather_check_job"] >= 1

\* C6 witness: the first weather check raised and main is about to register
\* the jobs.
C6_Witness ==
    /\ pc = "schedule"
    /\ "weather_check_job" \in failed

\* C7: when a job ends in its except branch the loop goes on: the process is
\* alive inside run_pending, the jobs still due in this pass are still
\* pending, and the next_run of the other job is what it was.
C7_FailureIsolated ==
    [][\A j \in Jobs :
          (job = j /\ job' = "none" /\ j \in failed' /\ InLoop) =>
              /\ pc' = "run_pending"
              /\ pending' = Tail(pending)
              /\ \A o \in Jobs \ {j} : next_run'[o] = next_run[o]]_vars

\* C7 witness: the scheduled weather check has failed and the cleanup job, due
\* in the same pass, is running.
C7_Witness ==
    /\ calls["weather_check_job"] >= 2
    /\ "weather_check_job" \in failed
    /\ job = "cleanup_job"
    /\ cpc = "returned"

\* C8: when initialize_database fails the process is aborted with a non-zero
\* status, no job function has been invoked and no job is registered.
C8_InitFailureFatal ==
    dbInit = "failed" =>
        /\ pc = "aborted"
        /\ exitCode = 1
        /\ ~banner
        /\ job = "none"
        /\ calls = NoCalls
        /\ DOMAIN next_run = {}
        /\ cpc = "idle"

\* C8 witness: initialize_database has failed.
C8_Witness ==
    /\ dbInit = "failed"
    /\ pc = "aborted"

\* C9 as claimed: an interrupt takes effect between ticks alone: when the
\* process has ended on an interrupt, no job is left in mid-execution.
C9_NoJobInterrupted ==
    pc \in {"stopped", "killed"} => job = "none"

\* C10 as claimed: a process that an interrupt has ended has printed the
\* shutdown banner and has exit status 0.
C10_GracefulShutdown ==
    pc \in {"stopped", "killed"} => (banner /\ exitCode = 0)

----------------------------------------------------------------------------
(* Further properties of the retention engine *)

\* the sweep that run_cleanup is in at position c
Stage(c) ==
    CASE c \in {"glob", "files"} -> "files"
      [] c \in {"cr_query", "cr_loop"} -> "city"
      [] c \in {"xml_query", "xml_loop"} -> "xml"
      [] OTHER -> "out"

\* an exception leaves run_cleanup from anywhere, and nothing follows it
ErrorEndsRun ==
    /\ cpc' = "raised" => Stage(cpc) # "out"
    /\ cpc = "raised" => cpc' \in {"raised", "idle"}
    /\ (cpc' = "raised" \/ cpc = "raised") =>
           UNCHANGED <<cityReports, vpww54xmls, files>>

\* C11 as claimed: run_cleanup runs the City Report sweep, then the
\* Warning-XML sweep, then the artifact sweep, and an error ends the run with
\* the effects of the completed sweeps kept.
C11_OrderCityXmlFiles ==
    [][/\ (Stage(cpc) # Stage(cpc') /\ cpc' # "raised") =>
              <<Stage(cpc), Stage(cpc')>> \in
                  {<<"out", "city">>, <<"city", "xml">>, <<"xml", "files">>,
                   <<"files", "out">>, <<"out", "out">>}
       /\ ErrorEndsRun]_vars

\* C11 amended: run_cleanup runs the artifact sweep, then the City Report
\* sweep, then the Warning-XML sweep; an error in a sweep ends the run, no later
\* sweep runs, and rows and files stay as the completed sweeps left them.
C11_OrderFilesCityXml ==
    [][/\ (Stage(cpc) # Stage(cpc') /\ cpc' # "raised") =>
              <<Stage(cpc), Stage(cpc')>> \in
                  {<<"out", "files">>, <<"files", "city">>, <<"city", "xml">>,
                   <<"xml", "out">>}
       /\ ErrorEndsRun]_vars

\* C11 witness: the Warning-XML sweep has raised with rows of its own still
\* eligible, after the artifact sweep removed a file and the City Report sweep
\* a row.
C11_Witness ==
    /\ cpc = "raised"
    /\ Cardinality(files) <= MaxFiles
    /\ Cardinality(cityReports) < MaxReports
    /\ \E r \in vpww54xmls : Filter(r, now, days)

\* C12 as claimed: when no job is executing the session holds no row marked
\* for removal and not committed.
C12_SessionCleanBetweenJobs ==
    (Alive /\ job = "none") => deleted = {}

----------------------------------------------------------------------------
(* Further properties of the scheduler *)

W == "weather_check_job"
C == "cleanup_job"

\* a job function returns to run_pending in this step
JobEnds(j) == InLoop /\ job = j /\ job' = "none"

\* a job function is entered from run_pending in this step
JobStarts(j) == InLoop /\ job = "none" /\ job' = j

\* C13 as claimed: a pass of the loop executes at most one job: when a job
\* returns to run_pending, no job is left to run in that pass.
C13_OneJobPerPass ==
    [][\A j \in Jobs : JobEnds(j) => pending' = <<>>]_vars

\* C13 amended: a pass executes every job that is due when the pass begins,
\* one after the other, earliest next_run first and the weather check first
\* when the two are equal; the pass ends when all of them have run.
C13_AllDueJobsPerPass ==
    [][/\ (pc = "loop" /\ pc' = "run_pending") =>
              /\ \A j \in Jobs :
                     (now >= next_run[j]) <=>
                         (\E i \in 1..Len(pending') : pending'[i] = j)
              /\ Len(pending') <= Cardinality(Jobs)
              /\ Len(pending') = 2 =>
                     /\ pending'[1] # pending'[2]
                     /\ next_run[pending'[1]] <= next_run[pending'[2]]
                     /\ next_run[pending'[1]] = next_run[pending'[2]] =>
                            pending'[1] = W
       /\ \A j \in Jobs : JobStarts(j) => (pending # <<>> /\ j = Head(pending))
       /\ \A j \in Jobs : JobEnds(j) => pending' = Tail(pending)
       /\ (pc = "run_pending" /\ pc' = "sleep") => pending = <<>>]_vars

\* C13 witness: the weather check has run in this pass and the cleanup job,
\* due in the same pass, is running.
C13_Witness ==
    /\ pc = "run_pending"
    /\ job = C
    /\ pending = <<C>>
    /\ calls[W] = 2
    /\ next_run[W] > now

----------------------------------------------------------------------------
(* Boundary, frame and error properties of the sweeps *)

\* C14: whatever a step of a sweep removes (a file, a row at the commit) or
\* marks for removal has a timestamp strictly before the cutoff now - period
\* of that sweep, and a row removed or marked has its is_delete flag set: a
\* flagged row or a file whose timestamp equals the cutoff is kept.
C14_BoundaryKept ==
    [][/\ \A f \in files \ files' : f.mtime < Cutoff(now, days)
       /\ \A r \in (cityReports \ cityReports') \cup (vpww54xmls \ vpww54xmls') :
              r.is_delete = TRUE /\ r.updated_at < Cutoff(now, days)
       /\ \A tbl \in Tables : \A r \in Rows(tbl) :
              (<<tbl, r.id>> \in deleted' \ deleted) =>
                  (r.is_delete = TRUE /\ r.updated_at < Cutoff(now, days))]_vars

\* C14 witness: a run has returned after removing a row of each table and a
\* file, and a flagged row of each table and an *.xml file that are exactly
\* at the cutoff are still there.
C14_Witness ==
    /\ cpc = "returned"
    /\ Cardinality(cityReports) < MaxReports
    /\ Cardinality(vpww54xmls) < MaxXmls
    /\ Cardinality(files) < MaxFiles + 1
    /\ \E r \in cityReports : r.is_delete = TRUE /\ r.updated_at = Cutoff(now, days)
    /\ \E r \in vpww54xmls : r.is_delete = TRUE /\ r.updated_at = Cutoff(now, days)
    /\ \E f \in files : f.ext = "xml" /\ f.mtime = Cutoff(now, days)

----------------------------------------------------------------------------
(* Due times *)

\* x is the first 01:00 after t
IsNextAtTime(x, t) == x > t /\ x <= t + Day /\ x % Day = AtTime

\* C15: when a job run by the loop returns, whether it failed or not, its
\* due time becomes ten minutes after the moment it returned (weather check)
\* or the first 01:00 after that moment (cleanup); the loop starts a job
\* only when its due time has been reached, and a pass that begins when a
\* job's due time has been reached runs that job.
C15_FailureKeepsSchedule ==
    [][/\ JobEnds(W) => next_run'[W] = now' + Interval
       /\ JobEnds(C) => IsNextAtTime(next_run'[C], now')
       /\ \A j \in Jobs : JobEnds(j) => next_run'[j] > now'
       /\ \A j \in Jobs : JobStarts(j) => now >= next_run[j]
       /\ \A j \in Jobs :
              (pc = "loop" /\ pc' = "run_pending" /\ now >= next_run[j]) =>
                  \E i \in 1..Len(pending') : pending'[i] = j]_vars

\* C15 witness: the second weather check and the cleanup of 01:00 have both
\* failed in one pass, and both have their next due time.
C15_Witness ==
    /\ pc = "run_pending"
    /\ job = "none"
    /\ failed = Jobs
    /\ calls[W] = 2
    /\ calls[C] = 1
    /\ next_run[W] = now + Interval
    /\ next_run[C] = At0100 + Day

\* C16: when the jobs are registered the weather check has run once and its
\* due time is ten minutes later; in the loop the count of weather checks
\* grows only by one, only by a weather check that starts when its due time
\* has been reached, and a pass that begins at or after the due time runs
\* it; the due time stays as it is until a weather check returns and is then
\* ten minutes after the moment of return.
C16_IntervalFromStart ==
    [][/\ (pc = "schedule" /\ pc' = "loop") =>
              /\ calls[W] = 1
              /\ calls'[W] = 1
              /\ next_run'[W] = now + Interval
       /\ (InLoop /\ calls'[W] # calls[W]) =>
              /\ now >= next_run[W]
              /\ calls'[W] = calls[W] + 1
              /\ job = "none"
              /\ job' = W
       /\ (InLoop /\ job # W) => next_run'[W] = next_run[W]
       /\ JobEnds(W) => next_run'[W] = now' + Interval
       /\ (pc = "loop" /\ pc' = "run_pending" /\ now >= next_run[W]) =>
              \E i \in 1..Len(pending') : pending'[i] = W]_vars

\* C16 witness: the second weather check is running, started by the pass of
\* the very second it became due.
C16_Witness ==
    /\ pc = "run_pending"
    /\ job = W
    /\ calls[W] = 2
    /\ now = next_run[W]

\* the modelled time leaves room for a running job to return and for one
\* more sleep
BeforeHorizon == now + MaxJobSeconds + SleepSeconds <= Horizon

\* C17: when every job returns and the loop goes on, a registered job whose
\* due time has been reached is eventually executed, unless the process ends
\* (a signal); this includes a cleanup whose 01:00 passes while a weather
\* check is running.
C17_DueJobEventuallyRuns ==
    \A j \in Jobs :
        (InLoop /\ BeforeHorizon /\ now >= next_run[j]) ~> (job = j \/ ~Alive)

\* C17 witness: the cleanup job is running later than 01:00, because the
\* second weather check was running when 01:00 passed.
C17_Witness ==
    /\ pc = "run_pending"
    /\ job = C
    /\ cpc = "glob"
    /\ calls[W] = 2
    /\ next_run[W] > now
    /\ now > next_run[C]

\* C18: one job at most is executing, and the sweeps run inside the cleanup
\* job alone; while a job is executing no job starts (the invocation counts
\* stay as they are), no due time is recomputed and the list of the pass is
\* not touched, so as long as the job has not returned nothing else is run;
\* a job starts only when none is executing.
C18_OneJobAtATime ==
    [][/\ job \in Jobs \cup {"none"}
       /\ cpc # "idle" => job = C
       /\ job # "none" =>
              /\ job' \in {job, "none"}
              /\ calls' = calls
              /\ job' = job => (next_run' = next_run /\ pending' = pending)
       /\ calls' # calls => (job = "none" /\ job' # "none")]_vars

\* C18 witness: the weather check is executing while the cleanup job, due at
\* the same second, waits for it to return.
C18_Witness ==
    /\ pc = "run_pending"
    /\ job = W
    /\ pending = <<W, C>>
    /\ now >= next_run[C]
    /\ calls[C] = 0
    /\ cpc = "idle"

\* C19: the sweeps are independent: a step of the artifact sweep leaves both
\* tables as they are and removes a file only for its modification time; a
\* step of the CityReport sweep leaves the directory and the VPWW54xml table
\* as they are; a step of the VPWW54xml sweep leaves the directory and the
\* CityReport table as they are.
C19_SweepsIndependent ==
    [][/\ Stage(cpc) = "files" =>
              /\ cityReports' = cityReports
              /\ vpww54xmls' = vpww54xmls
              /\ \A f \in files \ files' : IsOldFile(f, now, days)
       /\ Stage(cpc) = "city" =>
              (files' = files /\ vpww54xmls' = vpww54xmls)
       /\ Stage(cpc) = "xml" =>
              (files' = files /\ cityReports' = cityReports)]_vars

\* run_cleanup is being left by an error of the artifact sweep: the file
\* being visited is still in the list
FileSweepFailed == cpc = "raised" /\ todo # {}

\* C20: when the artifact sweep raises on a file, the step removes nothing;
\* the files removed before it stay removed and each was strictly older than
\* the cutoff; every file not yet visited is on disk; no step of the
\* artifact sweep and no step that leaves run_cleanup after the error
\* changes a table, and no further sweep runs; the error ends in
\* cleanup_job, which records the failure and returns to run_pending with
\* the process alive.
C20_PartialFileSweep ==
    [][/\ Stage(cpc) = "files" =>
              /\ files' \subseteq files
              /\ \A f \in files \ files' : f.mtime < Cutoff(now, days)
              /\ cityReports' = cityReports
              /\ vpww54xmls' = vpww54xmls
              /\ deleted' = deleted
              /\ cpc' \in {cpc, "files", "cr_query", "raised"}
       /\ cpc = "files" => \A n \in todo : \E f \in files : f.name = n
       /\ (cpc = "files" /\ cpc' = "raised") =>
              (todo' = todo /\ todo # {} /\ files' = files)
       /\ FileSweepFailed =>
              /\ \A n \in todo : \E f \in files : f.name = n
              /\ UNCHANGED <<cityReports, vpww54xmls, files, deleted>>
              /\ cpc' \in {"raised", "idle"}
              /\ cpc' = "idle" =>
                     /\ job = C
                     /\ job' = "none"
                     /\ pc = "run_pending"
                     /\ pc' = "run_pending"
                     /\ C \in failed'
                     /\ exitCode' = exitCode]_vars

\* C20 witness: the cleanup job has failed in the artifact sweep after one
\* file was removed: an old *.xml file is still on disk, the tables are whole
\* with rows that were eligible, and the loop goes on.
C20_Witness ==
    /\ pc = "run_pending"
    /\ job = "none"
    /\ C \in failed
    /\ Cardinality(files) = MaxFiles
    /\ \E f \in files : f.ext = "xml" /\ IsOldFile(f, At0100, JobPeriod)
    /\ Cardinality(cityReports) = MaxReports
    /\ Cardinality(vpww54xmls) = MaxXmls
    /\ \E r \in cityReports : Filter(r, At0100, JobPeriod)
    /\ deleted = {}

====
